---- MODULE Spec2Model ----
(***************************************************************************)
(* NBA play-type statistics service (flask_backend.py, flask_backend2.py). *)
(*                                                                         *)
(* The two files share, line for line, the cache, the refresher, the       *)
(* queries, the manual refresh and the status handler; they differ in      *)
(* ai_analysis only.  The model has two specifications:                    *)
(*   Spec          the cache, its refresher and the request handlers that  *)
(*                 read it, run by concurrent threads;                     *)
(*   SpecAnalysis  one ai_analysis request against a generation service.   *)
(*                                                                         *)
(* Python values: a str is a sequence of one-character strings, None of a  *)
(* number is <<>> and a number v is <<v>>, a dict is the sequence of its   *)
(* [key, val] items in insertion order.                                    *)
(***************************************************************************)
EXTENDS Integers, Sequences, FiniteSets, TLC

(***************************************************************************)
(* Bounds of the model.                                                    *)
(***************************************************************************)
NumOffTypes == 1    \* configured offensive play types that are modelled
NumDefTypes == 1    \* configured defensive play types that are modelled
MaxThreads  == 3    \* server threads (request handlers, spawned refreshes)
MaxRequests == 2    \* requests accepted in one behaviour
MaxCycles   == 2    \* refresh_cache() calls started in one behaviour
MaxTicks    == 1    \* clock advances in one behaviour

(***************************************************************************)
(* Program constants.                                                      *)
(***************************************************************************)
CACHE_DURATION == 3600

\* The keys of offensive_play_types, in the order of the dict literal.
OffNames ==
  << "Pick-and-Roll", "Isolation", "Transition", "Roll Man", "Post-Up",
     "Spot-Up", "Cut", "Off Screen", "Putbacks", "Hand-Off" >>

\* The keys of defensive_play_types, in the order of the dict literal.
DefNames ==
  << "Isolation", "Transition", "Pick-and-Roll", "Roll Man", "Post-Up",
     "Spot-Up", "Hand-Off", "Off Screen", "Putbacks" >>

Min(a, b) == IF a < b THEN a ELSE b

offensive_play_types == SubSeq(OffNames, 1, Min(NumOffTypes, Len(OffNames)))
defensive_play_types == SubSeq(DefNames, 1, Min(NumDefTypes, Len(DefNames)))

(***************************************************************************)
(* Python values.                                                          *)
(***************************************************************************)
NoneV == <<>>                    \* None, where a number may stand
Some(v) == <<v>>
Val(o) == o[1]
\* Python truth of an optional number: None and 0 are false.
Truthy(o) == o # NoneV /\ Val(o) # 0

EmptyDict == <<>>
DictKeys(d) == { d[i].key : i \in 1..Len(d) }
DictSet(d, k, v) == Append(d, [key |-> k, val |-> v])   \* k is a new key

(***************************************************************************)
(* Text.                                                                   *)
(***************************************************************************)
\* str.lower() on one character (the letters that occur in the model).
LowerChar(c) ==
  CASE c = "A" -> "a" [] c = "B" -> "b" [] c = "C" -> "c"
    [] c = "L" -> "l" [] c = "O" -> "o" [] c = "S" -> "s"
    [] c = "Y" -> "y" [] c = "Z" -> "z"
    [] OTHER -> c

Lower(s) == [i \in 1..Len(s) |-> LowerChar(s[i])]

IsPunct(c) == c \in {".", "'", "-", ","}

\* Collapses runs of blanks and drops leading blanks.
RECURSIVE Squeeze(_, _)
Squeeze(s, afterBlank) ==
  IF s = <<>> THEN <<>>
  ELSE IF Head(s) = " "
       THEN IF afterBlank THEN Squeeze(Tail(s), TRUE)
            ELSE <<" ">> \o Squeeze(Tail(s), TRUE)
       ELSE <<Head(s)>> \o Squeeze(Tail(s), FALSE)

RStrip(s) == IF s # <<>> /\ s[Len(s)] = " " THEN SubSeq(s, 1, Len(s) - 1) ELSE s

\* playerstyles1.normalize_text: case folding, punctuation dropped, blanks
\* normalized.
normalize_text(s) ==
  RStrip(Squeeze(SelectSeq(Lower(s), LAMBDA c : ~IsPunct(c)), TRUE))

\* Python `sub in text` on str.
Contains(text, sub) ==
  \E i \in 0..(Len(text) - Len(sub)) :
    \A j \in 1..Len(sub) : text[i + j] = sub[j]

\* pandas Series.str.contains(pat, case=False, na=False) on one cell: a regular
\* expression search, ignoring case; "." in the pattern matches any character.
StrContainsNoCase(cell, pat) ==
  \E i \in 0..(Len(cell) - Len(pat)) :
    \A j \in 1..Len(pat) :
      pat[j] = "." \/ LowerChar(pat[j]) = LowerChar(cell[i + j])

(***************************************************************************)
(* What the stats site serves: get_offensive_stats / get_defensive_stats   *)
(* return the table of the play type, or None.                             *)
(***************************************************************************)
AlB  == << "A", "l", " ", "B", "." >>
Cy   == << "C", "y" >>
LAL  == << "L", "A", "L" >>
BOS  == << "B", "O", "S" >>

OffCols == {"PLAYER", "TEAM", "PTS"}
DefCols == {"TEAM", "RANK", "PPP"}

SiteOffTable(play_type) ==
  CASE play_type = "Pick-and-Roll" ->
         [cols |-> OffCols,
          rows |-> << [PLAYER |-> AlB, TEAM |-> LAL, PTS |-> 71],
                      [PLAYER |-> Cy,  TEAM |-> BOS, PTS |-> 0] >>]
    [] play_type = "Isolation" ->
         [cols |-> OffCols,
          rows |-> << [PLAYER |-> AlB, TEAM |-> LAL, PTS |-> 42] >>]
    [] OTHER ->
         [cols |-> OffCols,
          rows |-> << [PLAYER |-> Cy, TEAM |-> BOS, PTS |-> 13] >>]

SiteDefTable(play_type) ==
  CASE play_type = "Isolation" ->
         [cols |-> DefCols,
          rows |-> << [TEAM |-> LAL, RANK |-> 1, PPP |-> 85],
                      [TEAM |-> BOS, RANK |-> 2, PPP |-> 0] >>]
    [] OTHER ->
         [cols |-> DefCols,
          rows |-> << [TEAM |-> BOS, RANK |-> 1, PPP |-> 91] >>]

\* The names the clients ask for.
PlayerQueries == { << "a", "l", " ", "b" >>, << "z", "z" >> }
TeamQueries   == { << "l", "a" >>, << "z", "z" >> }

(***************************************************************************)
(* Return values of the view functions and what Flask sends for them.      *)
(*   kind "tuple"     the pair (Response, status) of `return jsonify(..), n`*)
(*   kind "response"  the bare Response object of `return jsonify(..)`     *)
(***************************************************************************)
NoBody == [none |-> TRUE]
NoRet  == [kind |-> "none", code |-> 0, body |-> NoBody]
TupleRet(body, code) == [kind |-> "tuple", code |-> code, body |-> body]
ResponseRet(body)    == [kind |-> "response", code |-> 200, body |-> body]

NoResp == [code |-> 0, body |-> NoBody]
\* Flask turns a view's return value into the HTTP response.
HttpOf(ret) == [code |-> ret.code, body |-> ret.body]
\* Flask answers an exception that escapes a view with 500.
Http500(exc) == [code |-> 500, body |-> [exception |-> exc]]

RECURSIVE Flatten(_)
Flatten(ss) == IF ss = <<>> THEN <<>> ELSE Head(ss) \o Flatten(Tail(ss))

(***************************************************************************)
(* get_player, after ensure_cache(): the scan of offensive_cache.          *)
(***************************************************************************)
matches_playerExact(search_normalized, name) ==      \* `==` for `in`
  normalize_text(name) = search_normalized
matches_player(search_normalized, name) ==
  Contains(normalize_text(name), search_normalized)

\* The records one cached table adds to player_data.
PlayerRecords(item, search_normalized) ==
  IF {"PLAYER", "PTS", "TEAM"} \subseteq item.val.cols
  THEN LET player_stats ==
             SelectSeq(item.val.rows,
                       LAMBDA row : matches_player(search_normalized, row.PLAYER))
       IN [i \in 1..Len(player_stats) |->
             [playType |-> item.key,
              team     |-> player_stats[i].TEAM,
              pts      |-> IF player_stats[i].PTS # 0 THEN player_stats[i].PTS ELSE 0,
              player   |-> player_stats[i].PLAYER]]
  ELSE <<>>

PlayerData(cache, player_name) ==
  Flatten([i \in 1..Len(cache) |-> PlayerRecords(cache[i], normalize_text(player_name))])

PlayerReturn(player_data) ==
  IF player_data = <<>>
  THEN TupleRet([error |-> "Player not found"], 404)
  ELSE ResponseRet([player |-> player_data[1].player, data |-> player_data])

(***************************************************************************)
(* get_defense, after ensure_cache(): the scan of defensive_cache.         *)
(***************************************************************************)
DefenseRecords(item, team_name) ==
  LET team_stats ==
        SelectSeq(item.val.rows,
                  LAMBDA row : StrContainsNoCase(row.TEAM, team_name))
  IN [i \in 1..Len(team_stats) |->
        [playType |-> item.key,
         team     |-> team_stats[i].TEAM,
         rank     |-> team_stats[i].RANK,
         ppp      |-> IF team_stats[i].PPP # 0 THEN team_stats[i].PPP ELSE 0]]

DefenseData(cache, team_name) ==
  Flatten([i \in 1..Len(cache) |-> DefenseRecords(cache[i], team_name)])

DefenseReturn(defense_data) ==
  IF defense_data = <<>>
  THEN TupleRet([error |-> "Team not found"], 404)
  ELSE ResponseRet([team |-> defense_data[1].team, data |-> defense_data])

(***************************************************************************)
(* get_matchup: `r[1] == 404` on the value a nested view returned.  A      *)
(* tuple has an element 1; a Response object is not subscriptable.         *)
(***************************************************************************)
SubscriptOne(ret) ==
  IF ret.kind = "tuple" THEN [raised |-> FALSE, value |-> ret.code]
  ELSE [raised |-> TRUE, value |-> 0]

\* `r[1] == 400` for `r[1] == 404`
NotFoundCheck400(ret) ==
  LET e == SubscriptOne(ret)
  IN IF e.raised THEN "raise"
     ELSE IF e.value = 400 THEN "return" ELSE "continue"

\* What `if r[1] == 404: return r` does with r: "raise", "return" or "continue".
NotFoundCheck(ret) ==
  LET e == SubscriptOne(ret)
  IN IF e.raised THEN "raise"
     ELSE IF e.value = 404 THEN "return" ELSE "continue"

MatchupReturn(player_response, defense_response) ==
  ResponseRet([player  |-> player_response.body,
               defense |-> defense_response.body])

(***************************************************************************)
(* ensure_cache: `not cache_timestamp or (time.time() - cache_timestamp) > *)
(* CACHE_DURATION`, on the values the call read.                           *)
(***************************************************************************)
IsStaleAtTtl(t, ts) == t - ts >= CACHE_DURATION    \* `>=` for `>`
IsStale(t, ts) == t - ts > CACHE_DURATION

(***************************************************************************)
(* State.                                                                  *)
(***************************************************************************)
VARIABLES
  offensive_cache,   \* the module global: dict play type -> table
  defensive_cache,   \* the module global
  cache_timestamp,   \* the module global: None or the time of the last install
  now,               \* what time.time() returns
  serving,           \* app.run() has been reached
  th,                \* the threads: thread 0 is the main thread
  off_cycle,         \* history: the refresh cycle whose dict offensive_cache is
  def_cycle,         \* history: the refresh cycle whose dict defensive_cache is
  ts_cycle,          \* history: the refresh cycle that stamped cache_timestamp
  installed,         \* history: the refresh cycles that ran to completion
  ncycles,           \* history: refresh_cache() calls started
  nreqs,             \* history: requests accepted
  nticks,            \* history: clock advances
  an                 \* the ai_analysis request (SpecAnalysis)

cacheVars == << offensive_cache, defensive_cache, cache_timestamp, now, serving,
                th, off_cycle, def_cycle, ts_cycle, installed, ncycles, nreqs,
                nticks >>
vars == << offensive_cache, defensive_cache, cache_timestamp, now, serving,
           th, off_cycle, def_cycle, ts_cycle, installed, ncycles, nreqs,
           nticks, an >>

Threads == 0..MaxThreads
ServerThreads == 1..MaxThreads

NoEnsure == [ts1 |-> NoneV, t |-> NoneV, ts2 |-> NoneV, n |-> 0, done |-> FALSE]
\* history: what a reader has seen of the three globals: nothing yet (Unread),
\* values that the cycle c set all of them (c), or values of several cycles.
Unread == -1
Mixed  == -2
See(obs, c) == IF obs = Unread \/ obs = c THEN c ELSE Mixed
NoStatus == [cached |-> FALSE, age_seconds |-> NoneV,
             offensive_types |-> -1, defensive_types |-> -1]

\* A thread that runs nothing.
NoEntry == [seen |-> FALSE, t |-> 0, ts |-> NoneV]

IdleThread ==
  [op   |-> "none",          \* the view (or refresh_cache) the thread runs
   pc   |-> "idle",          \* where it stands
   stack |-> <<>>,           \* where its pending calls return to
   player_name |-> <<>>, team_name |-> <<>>,
   t_read |-> NoneV,         \* the value of time.time() it holds
   temp_offensive |-> EmptyDict, temp_defensive |-> EmptyDict,
   idx  |-> 0,               \* refresh_cache: the play type the loop is at
   retval |-> NoRet,         \* what the last nested view returned
   player_response |-> NoRet,
   st   |-> NoStatus,        \* status: the fields computed so far
   response |-> NoResp,      \* the HTTP response sent
   cycle |-> 0,              \* history: the refresh cycle it runs
   spawned |-> 0,            \* history: the refresh cycle manual_refresh started
   ok_off |-> {}, ok_def |-> {},  \* history: play types the cycle fetched
   nrefresh |-> 0,           \* history: refresh_cache() calls of the request
   ran_player |-> FALSE, ran_defense |-> FALSE,  \* history: scans executed
   found_player |-> FALSE, found_defense |-> FALSE,
   had_snapshot |-> FALSE,   \* history: a refresh had completed at its start
   entry |-> NoEntry,        \* history: get_matchup, the time and stamp at its start
   ens  |-> NoEnsure,        \* history: the last ensure_cache() call
   obs  |-> Unread]          \* history: the cycles of the globals it read

\* The history of the last ensure_cache() call ends with the thread's next step.
Forget(r) == [r EXCEPT !.ens = NoEnsure, !.ok_off = {}, !.ok_def = {}, !.cycle = 0]

\* refresh_cache() entered by thread record r, returning to r.stack.
EnterRefresh(r, c) ==
  [r EXCEPT !.pc = "r_off", !.idx = 1,
            !.temp_offensive = EmptyDict, !.temp_defensive = EmptyDict,
            !.cycle = c, !.ok_off = {}, !.ok_def = {},
            !.nrefresh = @ + 1, !.ens.n = @ + 1]

Free(t) == th[t].pc = "idle"
\* The thread that takes the next task: the free server thread of least index.
NextFree(except) ==
  LET free == { u \in ServerThreads \ except : Free(u) }
  IN IF free = {} THEN 0 ELSE CHOOSE u \in free : \A v \in free : u <= v

\* A thread that is over (its response sent, its refresh returned) leaves the
\* scene before anything else happens: nothing reads what it leaves behind.
Quiet == \A t \in Threads : th[t].pc # "done"

Accepting(t) ==
  /\ Quiet
  /\ serving
  /\ nreqs < MaxRequests
  /\ t # 0
  /\ t = NextFree({})

(***************************************************************************)
(* Init: the module has been loaded.  Run as a script, the main thread     *)
(* calls refresh_cache() and then app.run(); imported by a server, the     *)
(* views are served at once.                                               *)
(***************************************************************************)
AnIdle == [pc |-> "idle"]

InitCache ==
  /\ offensive_cache = EmptyDict
  /\ defensive_cache = EmptyDict
  /\ cache_timestamp = NoneV
  /\ now = 1
  /\ off_cycle = 0 /\ def_cycle = 0 /\ ts_cycle = 0
  /\ installed = {}
  /\ nreqs = 0 /\ nticks = 0
  /\ \E asScript \in BOOLEAN :
       /\ serving = ~asScript
       /\ ncycles = IF asScript THEN 1 ELSE 0
       /\ th = [t \in Threads |->
                  IF t = 0 /\ asScript
                  THEN EnterRefresh([IdleThread EXCEPT !.op = "refresh_cache"], 1)
                  ELSE IdleThread]

Init == InitCache /\ an = AnIdle

(***************************************************************************)
(* The clock.                                                              *)
(***************************************************************************)
TickWithin(dt, bound) ==
  /\ Quiet
  /\ nticks < bound
  /\ now' = now + dt
  /\ nticks' = nticks + 1
  /\ UNCHANGED << offensive_cache, defensive_cache, cache_timestamp, serving, th,
                  off_cycle, def_cycle, ts_cycle, installed, ncycles, nreqs, an >>

Tick(dt) == TickWithin(dt, MaxTicks)

\* The thread that is over leaves.
Respond(t) ==
  /\ th[t].pc = "done"
  /\ th' = [th EXCEPT ![t] = IdleThread]
  /\ UNCHANGED << offensive_cache, defensive_cache, cache_timestamp, now, serving,
                  off_cycle, def_cycle, ts_cycle, installed, ncycles, nreqs,
                  nticks, an >>

(***************************************************************************)
(* ensure_cache.  The condition reads cache_timestamp, then (when it is    *)
(* set) time.time() and cache_timestamp again; other threads run between   *)
(* the reads.  A cache_timestamp that is set stays set, so the first read  *)
(* and the call of time.time() are one step: no step of another thread     *)
(* between them changes what either yields.  For the same reason a view's  *)
(* first read is one step with the arrival of its request.                 *)
(***************************************************************************)
\* ensure_cache() returns: to the place on top of the stack.  In get_matchup
\* that place is the call of get_player, which starts with ensure_cache().
Return(r) ==
  IF Head(r.stack) = "m_call_player"
  THEN [r EXCEPT !.pc = "e_null", !.stack = <<"p_scan", "m_chk_player">>]
  ELSE [r EXCEPT !.pc = Head(r.stack), !.stack = Tail(r.stack)]

\* `not cache_timestamp` sends the call into refresh_cache().
EnsureRefreshesAlways == TRUE      \* the condition of ensure_cache left out
EnsureRefreshes == ~Truthy(cache_timestamp)
EnsureCycles == IF EnsureRefreshes THEN ncycles + 1 ELSE ncycles

\* The thread record r after `not cache_timestamp`, then either the entry of
\* refresh_cache() or `time.time()`.
EnsureBegin(r) ==
  LET r1 == [Forget(r) EXCEPT !.ens.ts1 = cache_timestamp,
                              !.obs = See(@, ts_cycle)]
  IN IF EnsureRefreshes
     THEN EnterRefresh(r1, ncycles + 1)
     ELSE [r1 EXCEPT !.pc = "e_cmp", !.t_read = Some(now), !.ens.t = Some(now)]

\* ensure_cache() called by a view that another view called (get_matchup).
EnsureNull(t) ==
  /\ Quiet
  /\ th[t].pc = "e_null"
  /\ EnsureRefreshes => ncycles < MaxCycles
  /\ th' = [th EXCEPT ![t] = EnsureBegin(@)]
  /\ ncycles' = EnsureCycles
  /\ UNCHANGED << offensive_cache, defensive_cache, cache_timestamp, now, serving,
                  off_cycle, def_cycle, ts_cycle, installed, nreqs, nticks, an >>

(***************************************************************************)
(* The views are entered: the request arrives and the view runs up to its  *)
(* first read of a global.                                                 *)
(***************************************************************************)
\* Thread t runs the view op, whose ensure_cache() returns to ret.
Enter(t, op, ret, player, team) ==
  /\ Accepting(t)
  /\ EnsureRefreshes => ncycles < MaxCycles
  /\ th' = [th EXCEPT ![t] =
              EnsureBegin([IdleThread EXCEPT
                             !.op = op, !.stack = ret,
                             !.player_name = player,
                             !.team_name = team,
                             !.entry = IF op = "get_matchup"
                                       THEN [seen |-> TRUE, t |-> now,
                                             ts |-> cache_timestamp]
                                       ELSE NoEntry])]
  /\ ncycles' = EnsureCycles
  /\ nreqs' = nreqs + 1
  /\ UNCHANGED << offensive_cache, defensive_cache, cache_timestamp, now, serving,
                  off_cycle, def_cycle, ts_cycle, installed, nticks, an >>

get_player(t, player_name) ==
  Enter(t, "get_player", <<"p_scan">>, player_name, <<>>)

get_defense(t, team_name) ==
  Enter(t, "get_defense", <<"d_scan">>, <<>>, team_name)

get_matchup(t, player_name, team_name) ==
  Enter(t, "get_matchup", <<"m_call_player">>, player_name, team_name)

\* status, up to `"cached": cache_timestamp is not None`
status(t) ==
  /\ Accepting(t)
  /\ th' = [th EXCEPT ![t] =
              [IdleThread EXCEPT !.op = "status", !.pc = "s_cond",
                                 !.st.cached = (cache_timestamp # NoneV),
                                 !.obs = ts_cycle,
                                 !.had_snapshot = (installed # {})]]
  /\ nreqs' = nreqs + 1
  /\ UNCHANGED << offensive_cache, defensive_cache, cache_timestamp, now, serving,
                  off_cycle, def_cycle, ts_cycle, installed, ncycles, nticks, an >>

\* manual_refresh: Thread(target=refresh_cache).start(), then the response.
ManualRefreshResponse == ResponseRet([message |-> "Cache refresh started"])

\* A handler that would stamp the cache itself when it starts the thread.
manual_refreshStamps(t) ==
  /\ Accepting(t)
  /\ ncycles < MaxCycles
  /\ LET u == NextFree({t})
     IN /\ u # 0
        /\ th' = [th EXCEPT
             ![t] = [IdleThread EXCEPT !.op = "manual_refresh", !.pc = "done",
                                       !.spawned = ncycles + 1,
                                       !.response = HttpOf(ManualRefreshResponse)],
             ![u] = EnterRefresh([IdleThread EXCEPT !.op = "refresh_cache"],
                                 ncycles + 1)]
  /\ ncycles' = ncycles + 1
  /\ nreqs' = nreqs + 1
  /\ cache_timestamp' = Some(now)
  /\ UNCHANGED << offensive_cache, defensive_cache, now, serving,
                  off_cycle, def_cycle, ts_cycle, installed, nticks, an >>

manual_refresh(t) ==
  /\ Accepting(t)
  /\ ncycles < MaxCycles
  /\ LET u == NextFree({t})
     IN /\ u # 0
        /\ th' = [th EXCEPT
             ![t] = [IdleThread EXCEPT !.op = "manual_refresh", !.pc = "done",
                                       !.spawned = ncycles + 1,
                                       !.response = HttpOf(ManualRefreshResponse)],
             ![u] = EnterRefresh([IdleThread EXCEPT !.op = "refresh_cache"],
                                 ncycles + 1)]
  /\ ncycles' = ncycles + 1
  /\ nreqs' = nreqs + 1
  /\ UNCHANGED << offensive_cache, defensive_cache, cache_timestamp, now, serving,
                  off_cycle, def_cycle, ts_cycle, installed, nticks, an >>

(***************************************************************************)
(* ensure_cache, continued.                                                *)
(***************************************************************************)
\* `(... - cache_timestamp) > CACHE_DURATION`
EnsureCompare(t) ==
  /\ Quiet
  /\ th[t].pc = "e_cmp"
  /\ LET r == [th[t] EXCEPT !.ens.ts2 = cache_timestamp, !.obs = See(@, ts_cycle)]
     IN IF IsStale(Val(th[t].t_read), Val(cache_timestamp))
        THEN /\ ncycles < MaxCycles
             /\ th' = [th EXCEPT ![t] = EnterRefresh(r, ncycles + 1)]
             /\ ncycles' = ncycles + 1
        ELSE /\ th' = [th EXCEPT ![t] = Return([r EXCEPT !.ens.done = TRUE])]
             /\ UNCHANGED ncycles
  /\ UNCHANGED << offensive_cache, defensive_cache, cache_timestamp, now, serving,
                  off_cycle, def_cycle, ts_cycle, installed, nreqs, nticks, an >>

(***************************************************************************)
(* refresh_cache.                                                          *)
(***************************************************************************)
\* `if stats is not None: temp[play_type] = stats`; stats is <<>> or <<table>>.
Keep(temp, play_type, stats) ==
  IF stats # <<>> THEN DictSet(temp, play_type, stats[1]) ELSE temp

\* One turn of the loop over offensive_play_types: the fetch blocks, then
\* answers a table (found) or None.
RefreshFetchOffensiveAborts(t, found) ==     \* a failed fetch ends the refresh
  /\ Quiet
  /\ th[t].pc = "r_off"
  /\ th[t].stack = <<>>
  /\ LET play_type == offensive_play_types[th[t].idx]
         last == th[t].idx = Len(offensive_play_types)
     IN th' = [th EXCEPT ![t] =
                 IF found
                 THEN [@ EXCEPT !.temp_offensive =
                                   Keep(@, play_type, <<SiteOffTable(play_type)>>),
                               !.ok_off = @ \cup {play_type},
                               !.idx = IF last THEN 1 ELSE @ + 1,
                               !.pc = IF last THEN "r_def" ELSE "r_off"]
                 ELSE [IdleThread EXCEPT !.op = "refresh_cache", !.pc = "done"]]
  /\ UNCHANGED << offensive_cache, defensive_cache, cache_timestamp, now, serving,
                  off_cycle, def_cycle, ts_cycle, installed, ncycles, nreqs,
                  nticks, an >>
RefreshFetchOffensive(t, found) ==
  /\ Quiet
  /\ th[t].pc = "r_off"
  /\ LET play_type == offensive_play_types[th[t].idx]
         stats == IF found THEN <<SiteOffTable(play_type)>> ELSE <<>>
         last == th[t].idx = Len(offensive_play_types)
     IN th' = [th EXCEPT ![t] =
                 [@ EXCEPT !.temp_offensive = Keep(@, play_type, stats),
                           !.ok_off = IF found THEN @ \cup {play_type} ELSE @,
                           !.idx = IF last THEN 1 ELSE @ + 1,
                           !.pc = IF last THEN "r_def" ELSE "r_off"]]
  /\ UNCHANGED << offensive_cache, defensive_cache, cache_timestamp, now, serving,
                  off_cycle, def_cycle, ts_cycle, installed, ncycles, nreqs,
                  nticks, an >>

\* One turn of the loop over defensive_play_types.
RefreshFetchDefensiveInPlace(t, found) ==    \* the global dict filled in place
  /\ Quiet
  /\ th[t].pc = "r_def"
  /\ LET play_type == defensive_play_types[th[t].idx]
         stats == IF found THEN <<SiteDefTable(play_type)>> ELSE <<>>
         last == th[t].idx = Len(defensive_play_types)
     IN /\ th' = [th EXCEPT ![t] =
                    [@ EXCEPT !.temp_defensive = Keep(@, play_type, stats),
                              !.ok_def = IF found THEN @ \cup {play_type} ELSE @,
                              !.idx = IF last THEN 0 ELSE @ + 1,
                              !.pc = IF last THEN "r_inst_off" ELSE "r_def"]]
        /\ defensive_cache' = Keep(th[t].temp_defensive, play_type, stats)
        /\ def_cycle' = th[t].cycle
  /\ UNCHANGED << offensive_cache, cache_timestamp, now, serving,
                  off_cycle, ts_cycle, installed, ncycles, nreqs,
                  nticks, an >>
RefreshFetchDefensive(t, found) ==
  /\ Quiet
  /\ th[t].pc = "r_def"
  /\ LET play_type == defensive_play_types[th[t].idx]
         stats == IF found THEN <<SiteDefTable(play_type)>> ELSE <<>>
         last == th[t].idx = Len(defensive_play_types)
     IN th' = [th EXCEPT ![t] =
                 [@ EXCEPT !.temp_defensive = Keep(@, play_type, stats),
                           !.ok_def = IF found THEN @ \cup {play_type} ELSE @,
                           !.idx = IF last THEN 0 ELSE @ + 1,
                           !.pc = IF last THEN "r_inst_off" ELSE "r_def"]]
  /\ UNCHANGED << offensive_cache, defensive_cache, cache_timestamp, now, serving,
                  off_cycle, def_cycle, ts_cycle, installed, ncycles, nreqs,
                  nticks, an >>

\* `offensive_cache = temp_offensive`
RefreshInstallOffensive(t) ==
  /\ Quiet
  /\ th[t].pc = "r_inst_off"
  /\ offensive_cache' = th[t].temp_offensive
  /\ off_cycle' = th[t].cycle
  /\ th' = [th EXCEPT ![t].pc = "r_inst_def"]
  /\ UNCHANGED << defensive_cache, cache_timestamp, now, serving, def_cycle,
                  ts_cycle, installed, ncycles, nreqs, nticks, an >>

\* `defensive_cache = temp_defensive`
RefreshInstallDefensive(t) ==
  /\ Quiet
  /\ th[t].pc = "r_inst_def"
  /\ defensive_cache' = th[t].temp_defensive
  /\ def_cycle' = th[t].cycle
  /\ th' = [th EXCEPT ![t].pc = "r_inst_ts"]
  /\ UNCHANGED << offensive_cache, cache_timestamp, now, serving, off_cycle,
                  ts_cycle, installed, ncycles, nreqs, nticks, an >>

\* The thread record when refresh_cache() returns: to ensure_cache, which
\* returns to its caller; or the thread (a spawned one, the main one) is over.
AfterRefresh(r) ==
  IF r.stack = <<>>
  THEN [IdleThread EXCEPT !.op = r.op, !.pc = "done", !.cycle = r.cycle,
                          !.ok_off = r.ok_off, !.ok_def = r.ok_def]
  ELSE Return([r EXCEPT !.ens.done = TRUE,
                        !.obs = r.cycle,
                        !.temp_offensive = EmptyDict,
                        !.temp_defensive = EmptyDict])

\* `cache_timestamp = time.time()`, and the return.
RefreshStamp(t) ==
  /\ Quiet
  /\ th[t].pc = "r_inst_ts"
  /\ cache_timestamp' = Some(now)
  /\ ts_cycle' = th[t].cycle
  /\ installed' = installed \cup {th[t].cycle}
  /\ th' = [th EXCEPT ![t] = AfterRefresh(@)]
  /\ serving' = (serving \/ t = 0)
  /\ UNCHANGED << offensive_cache, defensive_cache, now, off_cycle, def_cycle,
                  ncycles, nreqs, nticks, an >>

(***************************************************************************)
(* get_matchup after its own ensure_cache(): what it does with the value a *)
(* nested view returned.  These steps touch no global.                     *)
(***************************************************************************)
\* The thread record after `if r[1] == 404: return r` on the nested view's
\* return value, for the player (then get_defense is called) and for the
\* defense (then the two payloads are combined).
MatchupAfterCheck(r) ==
  LET check == NotFoundCheck(r.retval)
  IN CASE check = "raise" ->
            [r EXCEPT !.pc = "done", !.stack = <<>>,
                      !.response = Http500("TypeError")]
       [] check = "return" ->
            [r EXCEPT !.pc = "done", !.stack = <<>>,
                      !.response = HttpOf(r.retval)]
       [] OTHER ->
            IF Head(r.stack) = "m_chk_player"
            THEN [r EXCEPT !.player_response = r.retval, !.pc = "e_null",
                           !.stack = <<"d_scan", "m_chk_defense">>]
            ELSE [r EXCEPT !.pc = "done", !.stack = <<>>,
                           !.response =
                              HttpOf(MatchupReturn(r.player_response, r.retval))]

(***************************************************************************)
(* The scans of get_player and get_defense, and their return.              *)
(***************************************************************************)
\* A view returns ret: to get_matchup when it called, else to Flask.
ViewReturn(r, ret) ==
  IF r.stack = <<>>
  THEN [r EXCEPT !.pc = "done", !.response = HttpOf(ret)]
  ELSE MatchupAfterCheck([r EXCEPT !.retval = ret])

PlayerScan(t) ==
  /\ Quiet
  /\ th[t].pc = "p_scan"
  /\ LET player_data == PlayerData(offensive_cache, th[t].player_name)
         r == [Forget(th[t]) EXCEPT !.ran_player = TRUE,
                            !.found_player = (player_data # <<>>),
                            !.obs = See(@, off_cycle)]
     IN th' = [th EXCEPT ![t] = ViewReturn(r, PlayerReturn(player_data))]
  /\ UNCHANGED << offensive_cache, defensive_cache, cache_timestamp, now, serving,
                  off_cycle, def_cycle, ts_cycle, installed, ncycles, nreqs,
                  nticks, an >>

DefenseScan(t) ==
  /\ Quiet
  /\ th[t].pc = "d_scan"
  /\ LET defense_data == DefenseData(defensive_cache, th[t].team_name)
         r == [Forget(th[t]) EXCEPT !.ran_defense = TRUE,
                            !.found_defense = (defense_data # <<>>),
                            !.obs = See(@, def_cycle)]
     IN th' = [th EXCEPT ![t] = ViewReturn(r, DefenseReturn(defense_data))]
  /\ UNCHANGED << offensive_cache, defensive_cache, cache_timestamp, now, serving,
                  off_cycle, def_cycle, ts_cycle, installed, ncycles, nreqs,
                  nticks, an >>

(***************************************************************************)
(* status: the dict display is evaluated entry by entry.                   *)
(***************************************************************************)
\* `... if cache_timestamp else None`, then `time.time()`, the left operand
\* (one step, as in ensure_cache)
StatusCondition(t) ==
  /\ Quiet
  /\ th[t].pc = "s_cond"
  /\ th' = [th EXCEPT ![t] =
              IF Truthy(cache_timestamp)
              THEN [@ EXCEPT !.t_read = Some(now), !.pc = "s_sub"]
              ELSE [@ EXCEPT !.st.age_seconds = NoneV, !.pc = "s_off"]]
  /\ UNCHANGED << offensive_cache, defensive_cache, cache_timestamp, now, serving,
                  off_cycle, def_cycle, ts_cycle, installed, ncycles, nreqs,
                  nticks, an >>

\* `- cache_timestamp`, the right operand and the difference
StatusAge(t) ==
  /\ Quiet
  /\ th[t].pc = "s_sub"
  /\ th' = [th EXCEPT ![t] =
              [@ EXCEPT !.st.age_seconds = Some(Val(th[t].t_read) - Val(cache_timestamp)),
                        !.obs = See(@, ts_cycle), !.pc = "s_off"]]
  /\ UNCHANGED << offensive_cache, defensive_cache, cache_timestamp, now, serving,
                  off_cycle, def_cycle, ts_cycle, installed, ncycles, nreqs,
                  nticks, an >>

\* `"offensive_types": len(offensive_cache)`
StatusOffensive(t) ==
  /\ Quiet
  /\ th[t].pc = "s_off"
  /\ th' = [th EXCEPT ![t] = [@ EXCEPT !.st.offensive_types = Len(offensive_cache),
                                       !.obs = See(@, off_cycle), !.pc = "s_def"]]
  /\ UNCHANGED << offensive_cache, defensive_cache, cache_timestamp, now, serving,
                  off_cycle, def_cycle, ts_cycle, installed, ncycles, nreqs,
                  nticks, an >>

\* `"defensive_types": len(defensive_cache)`, and the response
StatusDefensive(t) ==
  /\ Quiet
  /\ th[t].pc = "s_def"
  /\ LET st == [th[t].st EXCEPT !.defensive_types = Len(defensive_cache)]
     IN th' = [th EXCEPT ![t] = [@ EXCEPT !.st = st, !.obs = See(@, def_cycle),
                                          !.pc = "done",
                                          !.response = HttpOf(ResponseRet(st))]]
  /\ UNCHANGED << offensive_cache, defensive_cache, cache_timestamp, now, serving,
                  off_cycle, def_cycle, ts_cycle, installed, ncycles, nreqs,
                  nticks, an >>

(***************************************************************************)
(* The cache and its readers.                                              *)
(***************************************************************************)
TickSteps == {CACHE_DURATION, CACHE_DURATION + 1}

Next ==
  \/ \E dt \in TickSteps : Tick(dt)
  \/ \E t \in ServerThreads, p \in PlayerQueries : get_player(t, p)
  \/ \E t \in ServerThreads, q \in TeamQueries : get_defense(t, q)
  \/ \E t \in ServerThreads, p \in PlayerQueries, q \in TeamQueries :
       get_matchup(t, p, q)
  \/ \E t \in ServerThreads : status(t)
  \/ \E t \in ServerThreads : manual_refresh(t)
  \/ \E t \in Threads : EnsureNull(t)
  \/ \E t \in Threads : EnsureCompare(t)
  \/ \E t \in Threads, found \in BOOLEAN : RefreshFetchOffensive(t, found)
  \/ \E t \in Threads, found \in BOOLEAN : RefreshFetchDefensive(t, found)
  \/ \E t \in Threads : RefreshInstallOffensive(t)
  \/ \E t \in Threads : RefreshInstallDefensive(t)
  \/ \E t \in Threads : RefreshStamp(t)
  \/ \E t \in Threads : PlayerScan(t)
  \/ \E t \in Threads : DefenseScan(t)
  \/ \E t \in Threads : StatusCondition(t)
  \/ \E t \in Threads : StatusAge(t)
  \/ \E t \in Threads : StatusOffensive(t)
  \/ \E t \in Threads : StatusDefensive(t)
  \/ \E t \in Threads : Respond(t)


Spec == Init /\ [][Next]_vars

(***************************************************************************)
(* SpecQuery: get_player on a fresh cache, over caches of several play     *)
(* types: tables with a player on several rows, a table without the TEAM   *)
(* column, an empty table.                                                 *)
(***************************************************************************)
NumQueryTypes == 2    \* play types in the caches of SpecQuery

QueryOffTables ==
  { SiteOffTable("Pick-and-Roll"),
    [cols |-> OffCols,
     rows |-> << [PLAYER |-> AlB, TEAM |-> LAL, PTS |-> 42],
                 [PLAYER |-> AlB, TEAM |-> BOS, PTS |-> 42],
                 [PLAYER |-> AlB, TEAM |-> LAL, PTS |-> 42] >>],
    [cols |-> {"PLAYER", "PTS"},
     rows |-> << [PLAYER |-> AlB, TEAM |-> LAL, PTS |-> 5] >>],
    [cols |-> OffCols, rows |-> <<>>] }

\* The dicts a refresh can leave: some of the play types, in the order of
\* offensive_play_types, each with a table.
RECURSIVE QueryCachesFrom(_)
QueryCachesFrom(i) ==
  IF i > Min(NumQueryTypes, Len(OffNames)) THEN { EmptyDict }
  ELSE LET rest == QueryCachesFrom(i + 1)
       IN rest \cup { << [key |-> OffNames[i], val |-> tab] >> \o d :
                        tab \in QueryOffTables, d \in rest }
QueryCaches == QueryCachesFrom(1)

QueryPlayerNames ==
  { << "A", "L", " ", " ", "b", "." >>, << "C", "y" >>, << "l" >>,
    << " " >>, << "z", "z" >> }

InitQuery ==
  /\ offensive_cache \in QueryCaches
  /\ defensive_cache = EmptyDict
  /\ cache_timestamp = Some(1)
  /\ now = 1
  /\ off_cycle = 1 /\ def_cycle = 1 /\ ts_cycle = 1
  /\ installed = {1}
  /\ ncycles = 1
  /\ nreqs = 0 /\ nticks = 0
  /\ serving = TRUE
  /\ th = [t \in Threads |-> IdleThread]
  /\ an = AnIdle

NextQuery ==
  \/ \E t \in ServerThreads, p \in QueryPlayerNames : get_player(t, p)
  \/ \E t \in Threads : EnsureCompare(t)
  \/ \E t \in Threads : PlayerScan(t)
  \/ \E t \in Threads : Respond(t)

SpecQuery == InitQuery /\ [][NextQuery]_vars

(***************************************************************************)
(* SpecManual: manual_refresh and the refreshes it starts, with the        *)
(* scheduling of threads: a thread that can take its next step takes it    *)
(* in the end, and a fetch answers in the end.                             *)
(***************************************************************************)
RefreshStep(t) ==
  \/ \E found \in BOOLEAN : RefreshFetchOffensive(t, found)
  \/ \E found \in BOOLEAN : RefreshFetchDefensive(t, found)
  \/ RefreshInstallOffensive(t)
  \/ RefreshInstallDefensive(t)
  \/ RefreshStamp(t)

NextManual ==
  \/ \E dt \in TickSteps : Tick(dt)
  \/ \E t \in ServerThreads : manual_refresh(t)
  \/ \E t \in Threads : RefreshStep(t)
  \/ \E t \in Threads : Respond(t)

FairManual == \A t \in Threads : WF_vars(RefreshStep(t)) /\ WF_vars(Respond(t))

SpecManual == Init /\ [][NextManual]_vars /\ FairManual

(***************************************************************************)
(* SpecSolo: one request at a time.  A request is accepted when no thread  *)
(* runs; the clock moves by a second or by CACHE_DURATION.                 *)
(***************************************************************************)
MaxSoloTicks == 2     \* clock advances in one behaviour of SpecSolo

SoloTickSteps == {1, CACHE_DURATION}

Alone == \A t \in Threads : Free(t)

NextSolo ==
  \/ \E dt \in SoloTickSteps : TickWithin(dt, MaxSoloTicks)
  \/ \E t \in ServerThreads, p \in PlayerQueries, q \in TeamQueries :
       Alone /\ get_matchup(t, p, q)
  \/ \E t \in ServerThreads, p \in PlayerQueries : Alone /\ get_player(t, p)
  \/ \E t \in ServerThreads : Alone /\ manual_refresh(t)
  \/ \E t \in Threads : EnsureNull(t)
  \/ \E t \in Threads : EnsureCompare(t)
  \/ \E t \in Threads : RefreshStep(t)
  \/ \E t \in Threads : PlayerScan(t)
  \/ \E t \in Threads : Respond(t)

SpecSolo == Init /\ [][NextSolo]_vars

(***************************************************************************)
(* ai_analysis (SpecAnalysis).                                             *)
(*                                                                         *)
(* variant 1 is flask_backend.py, variant 2 is flask_backend2.py.  The     *)
(* generation service is what the crew calls for each task, in the order   *)
(* of `tasks`; an exception it raises leaves kickoff().  A message is the  *)
(* sequence of its words.                                                  *)
(***************************************************************************)
MaxAnalyses == 2    \* analysis requests in one behaviour

Variants == {1, 2}

\* A str that may be absent (dict.get): <<>> is None, <<s>> is the str s.
StrTruthy(o) == o # NoneV /\ o[1] # <<>>

NameValues == { NoneV, Some(<<>>), Some(AlB), Some(LAL) }

\* playerStats items: pts is a number of tenths, or null.
PlayerStatLists ==
  { <<>>,
    << [playType |-> "Isolation", pts |-> Some(42)],
       [playType |-> "Pick-and-Roll", pts |-> Some(71)] >>,
    << [playType |-> "Cut", pts |-> NoneV] >> }

DefenseStatLists ==
  { <<>>,
    << [playType |-> "Isolation", rank |-> 2, ppp |-> 85],
       [playType |-> "Cut", rank |-> 1, ppp |-> 91] >> }

\* request.json: a JSON object with some of the four keys, or the JSON null.
NullBody ==
  [json |-> "null", playerName |-> NoneV, teamName |-> NoneV,
   playerStats |-> <<>>, defenseStats |-> <<>>]

AnalysisRequests ==
  [json : {"object"}, playerName : NameValues, teamName : NameValues,
   playerStats : PlayerStatLists, defenseStats : DefenseStatLists]
  \cup {NullBody}

\* The tasks of the crew, in the order of `tasks=[...]`.
Personas == << "offensive", "defensive", "neutral", "betting" >>

PersonaLabel(p) ==
  CASE p = "offensive" -> "OFFENSIVE SPECIALIST PERSPECTIVE"
    [] p = "defensive" -> "DEFENSIVE SPECIALIST PERSPECTIVE"
    [] p = "neutral"   -> "NEUTRAL ANALYST PERSPECTIVE"
    [] OTHER           -> "FINAL BETTING RECOMMENDATION"

\* What the generation service does, call after call.
ServiceModes == { "ok", "always_rate_limited", "rate_limited_once", "failing", "any" }

RateLimitMessages ==
  { << "429", "Resource", "has", "been", "exhausted" >>,
    << "Quota", "exceeded", "for", "metric" >>,
    << "Too", "Many", "Requests" >> }

OtherMessages ==
  { << "Connection", "reset", "by", "peer" >>,
    << "Deadline", "of", "429", "s", "exceeded" >>,
    << "API", "requires", "a", "quota", "project" >> }

NoExc == [kind |-> "none", msg |-> <<>>]
RateLimitSignals == { [kind |-> "RateLimit", msg |-> m] : m \in RateLimitMessages }
OtherErrors      == { [kind |-> "Other", msg |-> m] : m \in OtherMessages }

\* The outcomes the service may give to call number n (counted over the
\* life of the service): NoExc is a returned text.
ServiceOutcomes(mode, n) ==
  CASE mode = "ok"                  -> {NoExc}
    [] mode = "always_rate_limited" -> RateLimitSignals
    [] mode = "rate_limited_once"   -> IF n = 1 THEN RateLimitSignals ELSE {NoExc}
    [] mode = "failing"             -> OtherErrors
    [] OTHER                        -> {NoExc} \cup RateLimitSignals \cup OtherErrors

\* str.lower() on a word.
LowerWord(w) ==
  CASE w = "Quota" -> "quota" [] w = "QUOTA" -> "quota" [] w = "Too" -> "too"
    [] w = "Many" -> "many" [] w = "Requests" -> "requests"
    [] w = "Resource" -> "resource" [] w = "Connection" -> "connection"
    [] w = "Deadline" -> "deadline" [] w = "API" -> "api"
    [] OTHER -> w
LowerMsg(m) == [i \in 1..Len(m) |-> LowerWord(m[i])]
HasWord(m, w) == \E i \in 1..Len(m) : m[i] = w

\* The except block: what it answers for the exception e.
ExceptResponse(e) ==
  LET error_message == e.msg
  IN IF HasWord(LowerMsg(error_message), "quota") \/ HasWord(error_message, "429")
     THEN [code |-> 429,
           body |-> [error |-> << "Rate", "limit", "exceeded.", "Please", "wait",
                                  "a", "minute", "and", "try", "again." >>]]
     ELSE [code |-> 500, body |-> [error |-> << "Analysis", "failed:" >> \o error_message]]

\* sorted(player_stats, key=pts, reverse=True) and the f-string of each item:
\* an item whose pts is null cannot be compared nor formatted.
RECURSIVE InsertDesc(_, _)
InsertDesc(sorted, s) ==
  IF sorted = <<>> THEN <<s>>
  ELSE IF Val(Head(sorted).pts) >= Val(s.pts)
       THEN <<Head(sorted)>> \o InsertDesc(Tail(sorted), s)
       ELSE <<s>> \o sorted
RECURSIVE SortDescByPts(_)
SortDescByPts(stats) ==
  IF stats = <<>> THEN <<>>
  ELSE InsertDesc(SortDescByPts(SubSeq(stats, 1, Len(stats) - 1)), stats[Len(stats)])

RECURSIVE InsertAsc(_, _)
InsertAsc(sorted, s) ==
  IF sorted = <<>> THEN <<s>>
  ELSE IF Head(sorted).rank <= s.rank
       THEN <<Head(sorted)>> \o InsertAsc(Tail(sorted), s)
       ELSE <<s>> \o sorted
RECURSIVE SortAscByRank(_)
SortAscByRank(stats) ==
  IF stats = <<>> THEN <<>>
  ELSE InsertAsc(SortAscByRank(SubSeq(stats, 1, Len(stats) - 1)), stats[Len(stats)])

StatsRaise(req) == \E i \in 1..Len(req.playerStats) : req.playerStats[i].pts = NoneV

\* data.get(...) on None
AttributeErrorGet ==
  [kind |-> "AttributeError",
   msg |-> << "'NoneType'", "object", "has", "no", "attribute", "'get'" >>]

TypeErrorFormat ==
  [kind |-> "TypeError",
   msg |-> << "unsupported", "format", "string", "passed", "to",
              "NoneType.__format__" >>]

\* Crew(tasks=[offensive_task, defensive_task, neutral_task, betting_task]):
\* flask_backend.py defines debate_task only.
NameErrorTasks ==
  [kind |-> "NameError",
   msg |-> << "name", "'offensive_task'", "is", "not", "defined" >>]

\* matchup_context, as far as the request decides it.
MatchupContext(req) ==
  [player |-> req.playerName[1], team |-> req.teamName[1],
   player_stats_text |-> SortDescByPts(req.playerStats),
   defense_stats_text |-> SortAscByRank(req.defenseStats)]

\* The exception that ends the code from the name check to the Crew, or NoExc.
BuildOutcome(variant, req) ==
  IF StatsRaise(req) THEN TypeErrorFormat
  ELSE IF variant = 1 THEN NameErrorTasks
  ELSE NoExc

\* complete_analysis: label and output of each task, separated by "---".
RECURSIVE Sections(_)
Sections(outputs) ==
  IF outputs = <<>> THEN <<>>
  ELSE << PersonaLabel(Head(outputs).persona), Head(outputs) >>
       \o (IF Len(outputs) > 1 THEN << "---" >> ELSE <<>>)
       \o Sections(Tail(outputs))

AnalysisStart(variant, mode, calls, served) ==
  [pc |-> "idle", variant |-> variant, service |-> mode,
   calls |-> calls,          \* calls the service has received
   served |-> served,         \* history: requests answered
   req |-> NullBody,
   context |-> <<>>,
   persona |-> 0,            \* the task the crew is at
   attempts |-> [i \in 1..Len(Personas) |-> 0],  \* history: calls made for each task
   outputs |-> <<>>,         \* the task outputs so far
   exc |-> NoExc,            \* the exception the try block caught
   response |-> NoResp]

InitAnalysis ==
  /\ offensive_cache = EmptyDict
  /\ defensive_cache = EmptyDict
  /\ cache_timestamp = NoneV
  /\ now = 1
  /\ off_cycle = 0 /\ def_cycle = 0 /\ ts_cycle = 0
  /\ installed = {}
  /\ nreqs = 0 /\ nticks = 0 /\ ncycles = 0
  /\ serving = TRUE
  /\ th = [t \in Threads |-> IdleThread]
  /\ \E variant \in Variants, mode \in ServiceModes :
       an = AnalysisStart(variant, mode, 0, 0)

\* `if not player_name or not team_name`
NamesMissing(req) == ~StrTruthy(req.playerName) \/ ~StrTruthy(req.teamName)

\* Lines from `data = request.json` to the name check.
AnalysisReceive(req) ==
  /\ an.pc = "idle"
  /\ an.served < MaxAnalyses
  /\ an' = IF req.json = "null"
           THEN [an EXCEPT !.req = req, !.pc = "except", !.exc = AttributeErrorGet]
           ELSE IF NamesMissing(req)
           THEN [an EXCEPT !.req = req, !.pc = "done",
                           !.response = [code |-> 400,
                                         body |-> [error |-> << "Missing", "player",
                                                                "or", "team", "name" >>]]]
           ELSE [an EXCEPT !.req = req, !.pc = "building"]
  /\ UNCHANGED cacheVars

\* Lines from the stats texts to the Crew.
AnalysisBuild ==
  /\ an.pc = "building"
  /\ LET e == BuildOutcome(an.variant, an.req)
     IN an' = IF e # NoExc
              THEN [an EXCEPT !.pc = "except", !.exc = e]
              ELSE [an EXCEPT !.pc = "kickoff", !.persona = 1,
                              !.context = <<MatchupContext(an.req)>>]
  /\ UNCHANGED cacheVars

\* analysis_crew.kickoff(): the call of the service for the task at hand.
GenerationCall(outcome) ==
  /\ an.pc = "kickoff"
  /\ outcome \in ServiceOutcomes(an.service, an.calls + 1)
  /\ LET p == an.persona
         called == [an EXCEPT !.calls = @ + 1, !.attempts[p] = @ + 1]
     IN an' = IF outcome # NoExc
              THEN [called EXCEPT !.pc = "except", !.exc = outcome]
              ELSE [called EXCEPT
                      !.outputs = Append(@, [persona |-> Personas[p],
                                             attempt |-> called.attempts[p]]),
                      !.persona = IF p = Len(Personas) THEN 0 ELSE p + 1,
                      !.pc = IF p = Len(Personas) THEN "format" ELSE "kickoff"]
  /\ UNCHANGED cacheVars

\* complete_analysis and the 200 response.
AnalysisFormat ==
  /\ an.pc = "format"
  /\ an' = [an EXCEPT !.pc = "done",
                      !.response = [code |-> 200,
                                    body |-> [analysis |-> Sections(an.outputs),
                                              player |-> an.req.playerName[1],
                                              team |-> an.req.teamName[1]]]]
  /\ UNCHANGED cacheVars

\* `except Exception as e`
AnalysisExceptCrashes ==          \* the exception leaves the view and the process
  /\ an.pc = "except"
  /\ an' = [an EXCEPT !.pc = "crashed"]
  /\ UNCHANGED cacheVars
AnalysisExcept ==
  /\ an.pc = "except"
  /\ an' = [an EXCEPT !.pc = "done", !.response = ExceptResponse(an.exc)]
  /\ UNCHANGED cacheVars

\* The response is sent; the view is ready for the next request.
AnalysisEnd ==
  /\ an.pc = "done"
  /\ an' = AnalysisStart(an.variant, an.service, an.calls, an.served + 1)
  /\ UNCHANGED cacheVars

NextAnalysis ==
  \/ \E req \in AnalysisRequests : AnalysisReceive(req)
  \/ AnalysisBuild
  \/ \E outcome \in {NoExc} \cup RateLimitSignals \cup OtherErrors :
       GenerationCall(outcome)
  \/ AnalysisFormat
  \/ AnalysisExcept
  \/ AnalysisEnd

SpecAnalysis == InitAnalysis /\ [][NextAnalysis]_vars

\* The view runs on: a step of the request that can be taken is taken in the
\* end, and a call of the generation service returns or raises in the end.
AnalysisStep ==
  \/ AnalysisBuild
  \/ \E outcome \in {NoExc} \cup RateLimitSignals \cup OtherErrors :
       GenerationCall(outcome)
  \/ AnalysisFormat
  \/ AnalysisExcept
  \/ AnalysisEnd

FairAnalysis == WF_vars(AnalysisStep)

SpecAnalysisLive == InitAnalysis /\ [][NextAnalysis]_vars /\ FairAnalysis

(***************************************************************************)
(* SpecFrame: every view of the program, ai_analysis among them, one       *)
(* request at a time; a refresh started by manual_refresh runs to its end  *)
(* before the next request.                                                *)
(***************************************************************************)
FrameRequests ==
  { NullBody,
    [NullBody EXCEPT !.json = "object", !.playerName = Some(AlB)],
    [NullBody EXCEPT !.json = "object", !.playerName = Some(AlB),
                     !.teamName = Some(LAL)] }

InitFrame ==
  /\ InitCache
  /\ \E variant \in Variants : an = AnalysisStart(variant, "any", 0, 0)

NoRequest == Alone /\ an.pc = "idle"

NextFrame ==
  \/ \E dt \in TickSteps : Tick(dt)
  \/ \E t \in ServerThreads, p \in PlayerQueries : NoRequest /\ get_player(t, p)
  \/ \E t \in ServerThreads, q \in TeamQueries : NoRequest /\ get_defense(t, q)
  \/ \E t \in ServerThreads, p \in PlayerQueries, q \in TeamQueries :
       NoRequest /\ get_matchup(t, p, q)
  \/ \E t \in ServerThreads : NoRequest /\ status(t)
  \/ \E t \in ServerThreads : NoRequest /\ manual_refresh(t)
  \/ \E req \in FrameRequests : NoRequest /\ serving /\ AnalysisReceive(req)
  \/ \E t \in Threads : EnsureNull(t)
  \/ \E t \in Threads : EnsureCompare(t)
  \/ \E t \in Threads : RefreshStep(t)
  \/ \E t \in Threads : PlayerScan(t)
  \/ \E t \in Threads : DefenseScan(t)
  \/ \E t \in Threads : StatusCondition(t)
  \/ \E t \in Threads : StatusAge(t)
  \/ \E t \in Threads : StatusOffensive(t)
  \/ \E t \in Threads : StatusDefensive(t)
  \/ \E t \in Threads : Respond(t)
  \/ AnalysisStep

SpecFrame == InitFrame /\ [][NextFrame]_vars

(***************************************************************************)
(* Properties of the cache and its readers (Spec).                         *)
(***************************************************************************)
Done(t, op) == th[t].pc = "done" /\ th[t].op = op

\* C1: a call of ensure_cache() that has returned made exactly one call of
\* refresh_cache() if the cache_timestamp it read was None (or 0) or the time it
\* read exceeded the cache_timestamp it read by more than CACHE_DURATION, and
\* none otherwise, also when the difference is exactly CACHE_DURATION.
C1_EnsureRefreshesIffStale ==
  \A t \in Threads :
    th[t].ens.done =>
      LET e == th[t].ens
          due == \/ e.ts1 = NoneV
                 \/ Val(e.ts1) = 0
                 \/ (e.t # NoneV /\ e.ts2 # NoneV
                       /\ Val(e.t) - Val(e.ts2) > CACHE_DURATION)
      IN e.n = IF due THEN 1 ELSE 0

\* C1 witness: a call returned without a refresh when exactly CACHE_DURATION
\* had elapsed.
C1_Witness ==
  \E t \in Threads :
    /\ th[t].ens.done
    /\ th[t].ens.n = 0
    /\ th[t].ens.ts2 # NoneV
    /\ Val(th[t].ens.t) - Val(th[t].ens.ts2) = CACHE_DURATION

\* C2: a reader that has answered saw cache_timestamp, offensive_cache and
\* defensive_cache as one refresh cycle left them, never values of several
\* cycles.
C2_AtomicSwap ==
  \A t \in Threads :
    (\E op \in {"get_player", "get_defense", "get_matchup", "status"} : Done(t, op))
      => th[t].obs # Mixed

\* C3: when a refresh_cache() returns, offensive_cache and defensive_cache
\* hold exactly the play types it fetched, and cache_timestamp is the time of
\* its return, however many fetches failed.
C3_RefreshInstallsWhatItFetched ==
  [][ \A t \in Threads :
        (th[t].pc = "r_inst_ts" /\ th'[t].pc # "r_inst_ts") =>
          /\ DictKeys(offensive_cache') = th[t].ok_off
          /\ DictKeys(defensive_cache') = th[t].ok_def
          /\ cache_timestamp' = Some(now') ]_vars

\* C5: get_matchup for a player with a matching offensive row and a team
\* with no matching defensive row answers 404 'Team not found'.
C5_UnknownTeamIsNotFound ==
  \A t \in Threads :
    ( /\ Done(t, "get_matchup")
      /\ th[t].found_player
      /\ DefenseData(defensive_cache, th[t].team_name) = <<>> )
      => th[t].response = [code |-> 404, body |-> [error |-> "Team not found"]]

\* C6: get_matchup for a player and a team that both match a row answers 200
\* with the payload of get_player under 'player' and the payload of
\* get_defense under 'defense'.
C6_MatchupCombinesPayloads ==
  \A t \in Threads :
    ( /\ Done(t, "get_matchup")
      /\ th[t].found_player
      /\ DefenseData(defensive_cache, th[t].team_name) # <<>> )
      => th[t].response =
           [code |-> 200,
            body |-> [player  |-> PlayerReturn(PlayerData(offensive_cache,
                                                          th[t].player_name)).body,
                      defense |-> DefenseReturn(DefenseData(defensive_cache,
                                                            th[t].team_name)).body]]

\* C7: get_matchup for a player that matches no offensive row answers 404
\* 'Player not found' and has not run the scan of get_defense.
C7_PlayerNotFoundShortCircuits ==
  \A t \in Threads :
    (Done(t, "get_matchup") /\ th[t].ran_player /\ ~th[t].found_player)
      => /\ th[t].response = [code |-> 404, body |-> [error |-> "Player not found"]]
         /\ ~th[t].ran_defense

\* C7 witness: such a request has answered, the offensive cache holding rows.
C7_Witness ==
  \E t \in Threads :
    /\ Done(t, "get_matchup")
    /\ th[t].ran_player /\ ~th[t].found_player
    /\ offensive_cache # EmptyDict
    /\ th[t].response.code = 404

\* C15: while a refresh_cache() is in its loops, nothing of it is in the
\* globals: offensive_cache, defensive_cache and cache_timestamp are what
\* completed or other refreshes assigned (or the initial values), and a step
\* of its loops, fetch found or failed, leaves the three unchanged.
Fetching(t) == th[t].pc \in {"r_off", "r_def"}

FetchedIsPrivate ==
  \A t \in Threads :
    Fetching(t) =>
      /\ off_cycle # th[t].cycle
      /\ def_cycle # th[t].cycle
      /\ ts_cycle # th[t].cycle
      /\ th[t].cycle \notin installed

C15_FetchingLeavesSnapshot ==
  [][ /\ FetchedIsPrivate
      /\ FetchedIsPrivate'
      /\ (\E t \in Threads : Fetching(t) /\ th'[t] # th[t]) =>
           /\ offensive_cache' = offensive_cache
           /\ defensive_cache' = defensive_cache
           /\ cache_timestamp' = cache_timestamp ]_vars

\* C15 witness: a refresh has fetched an offensive table and is still in its
\* loops, while the globals are the empty snapshot of a completed refresh.
C15_Witness ==
  \E t \in Threads :
    /\ th[t].pc = "r_def"
    /\ th[t].temp_offensive # EmptyDict
    /\ installed # {}
    /\ offensive_cache = EmptyDict
    /\ cache_timestamp # NoneV

\* C16: when no refresh is between its first and its last assignment,
\* offensive_cache, defensive_cache and cache_timestamp are those of one and
\* the same refresh cycle.
C16_WholeUnitPerCycle ==
  (\A t \in Threads : th[t].pc \notin {"r_inst_def", "r_inst_ts"}) =>
    (off_cycle = def_cycle /\ def_cycle = ts_cycle)

\* C19: a refresh_cache() whose fetches all failed leaves, when it returns,
\* two empty caches and cache_timestamp set to the time of its return; and
\* while the caches are empty and stamped, a get_player or get_defense that
\* found the cache fresh answers 404 without a refresh, and a status that
\* read that snapshot answers cached = true with 0 and 0 types.
EmptySnapshotServed ==
  /\ \A t \in Threads :
       (Done(t, "get_player") /\ th[t].nrefresh = 0 /\ offensive_cache = EmptyDict)
         => th[t].response = [code |-> 404, body |-> [error |-> "Player not found"]]
  /\ \A t \in Threads :
       (Done(t, "get_defense") /\ th[t].nrefresh = 0 /\ defensive_cache = EmptyDict)
         => th[t].response = [code |-> 404, body |-> [error |-> "Team not found"]]
  /\ \A t \in Threads :
       ( /\ Done(t, "status")
         /\ offensive_cache = EmptyDict /\ defensive_cache = EmptyDict
         /\ cache_timestamp # NoneV
         /\ th[t].obs = ts_cycle /\ off_cycle = ts_cycle /\ def_cycle = ts_cycle )
         => /\ th[t].response.body.cached = TRUE
            /\ th[t].response.body.offensive_types = 0
            /\ th[t].response.body.defensive_types = 0

C19_AllFailedRefreshServesEmpty ==
  [][ /\ \A t \in Threads :
           ( /\ th[t].pc = "r_inst_ts" /\ th'[t].pc # "r_inst_ts"
             /\ th[t].ok_off = {} /\ th[t].ok_def = {} ) =>
             /\ offensive_cache' = EmptyDict
             /\ defensive_cache' = EmptyDict
             /\ cache_timestamp' = Some(now')
      /\ EmptySnapshotServed
      /\ EmptySnapshotServed' ]_vars

\* C9: status answers cached = false and age_seconds = null as long as no
\* refresh has completed, and cached = true with age_seconds >= 0 once a
\* refresh had completed when it was called.
C9_StatusAge ==
  \A t \in Threads :
    Done(t, "status") =>
      LET st == th[t].response.body
      IN /\ installed = {} => (st.cached = FALSE /\ st.age_seconds = NoneV)
         /\ th[t].had_snapshot =>
              /\ st.cached = TRUE
              /\ st.age_seconds # NoneV
              /\ Val(st.age_seconds) >= 0

(***************************************************************************)
(* Properties of all the views (SpecFrame).                                *)
(***************************************************************************)
Installing(t) == th[t].pc \in {"r_inst_off", "r_inst_def", "r_inst_ts"}
CacheGlobals == << offensive_cache, defensive_cache, cache_timestamp >>

\* C14: offensive_cache, defensive_cache and cache_timestamp change only in
\* a step that is one of the three assignments at the end of refresh_cache();
\* no step of status, of the manual_refresh handler, of ai_analysis, or of a
\* get_player, get_defense or get_matchup that has called no refresh_cache()
\* changes any of them.
C14_OnlyInstallWritesCache ==
  [][ /\ CacheGlobals' # CacheGlobals =>
           \E t \in Threads : Installing(t) /\ th'[t].pc # th[t].pc
      /\ an' # an => CacheGlobals' = CacheGlobals
      /\ \A t \in Threads :
           ( /\ th'[t] # th[t]
             /\ \/ th[t].op \in {"status", "manual_refresh"}
                \/ th'[t].op \in {"status", "manual_refresh"}
                \/ /\ th'[t].op \in {"get_player", "get_defense", "get_matchup"}
                   /\ th'[t].nrefresh = 0 )
             => CacheGlobals' = CacheGlobals ]_vars

\* C14 witness: ai_analysis has answered 200 and status has answered, the
\* caches holding a table and the stamp of a refresh.
C14_Witness ==
  /\ an.served > 0
  /\ an.calls >= Len(Personas)
  /\ \E t \in Threads : Done(t, "status") /\ th[t].response.body.offensive_types = 1
  /\ offensive_cache # EmptyDict
  /\ cache_timestamp # NoneV

(***************************************************************************)
(* Properties of get_matchup alone (SpecSolo).                             *)
(***************************************************************************)
\* The cache was empty or stale when the get_matchup of thread t started.
EntryDue(t) ==
  \/ th[t].entry.ts = NoneV
  \/ th[t].entry.t - Val(th[t].entry.ts) > CACHE_DURATION

\* C18 as stated: a get_matchup that ran alone has made exactly one
\* refresh_cache() call if the cache was empty or stale when it started, and
\* none if it was fresh.
C18_MatchupRefreshesOnce ==
  \A t \in Threads :
    Done(t, "get_matchup") =>
      th[t].nrefresh = IF EntryDue(t) THEN 1 ELSE 0

\* C18 amended: a get_matchup that ran alone and took no longer than
\* CACHE_DURATION has made at most one refresh_cache() call: exactly one if
\* the cache was empty or stale when it started, none if the cache was still
\* no older than CACHE_DURATION when it ended.
C18_MatchupRefreshesOnceWithinTtl ==
  \A t \in Threads :
    (Done(t, "get_matchup") /\ now - th[t].entry.t <= CACHE_DURATION) =>
      /\ th[t].nrefresh <= 1
      /\ EntryDue(t) => th[t].nrefresh = 1
      /\ (~EntryDue(t) /\ now - Val(th[t].entry.ts) <= CACHE_DURATION) =>
           th[t].nrefresh = 0

\* C18 witness: a get_matchup that started on a cache exactly CACHE_DURATION
\* old has answered a second later, after the one refresh that the
\* ensure_cache() of the nested get_player made.
C18_Witness ==
  \E t \in Threads :
    /\ Done(t, "get_matchup")
    /\ th[t].entry.ts # NoneV
    /\ th[t].entry.t - Val(th[t].entry.ts) = CACHE_DURATION
    /\ now = th[t].entry.t + 1
    /\ th[t].nrefresh = 1
    /\ th[t].ran_player

(***************************************************************************)
(* Properties of get_player (SpecQuery).                                   *)
(***************************************************************************)
\* The rows of offensive_cache that get_player(player_name) is to answer:
\* <<i, j>> is row j of the i-th cached table.
MatchingRows(player_name) ==
  { ij \in UNION { { <<i, j>> : j \in 1..Len(offensive_cache[i].val.rows) } :
                      i \in 1..Len(offensive_cache) } :
      /\ {"PLAYER", "PTS", "TEAM"} \subseteq offensive_cache[ij[1]].val.cols
      /\ Contains(normalize_text(offensive_cache[ij[1]].val.rows[ij[2]].PLAYER),
                  normalize_text(player_name)) }

RowRecord(ij) ==
  LET row == offensive_cache[ij[1]].val.rows[ij[2]]
  IN [playType |-> offensive_cache[ij[1]].key, team |-> row.TEAM,
      pts |-> row.PTS, player |-> row.PLAYER]

\* C13: get_player answers one record for every row, of every cached table
\* with the columns PLAYER, PTS and TEAM, whose normalized player name
\* contains the normalized query: as many records as such rows, equal rows
\* giving equal records as often as they occur, in the order of the tables and
\* rows; and it answers 404 exactly when there is no such row.
C13_OneRecordPerMatchingRow ==
  \A t \in Threads :
    Done(t, "get_player") =>
      LET M == MatchingRows(th[t].player_name)
          resp == th[t].response
      IN /\ (M = {}) <=> (resp.code = 404)
         /\ M = {} => resp.body = [error |-> "Player not found"]
         /\ M # {} =>
              /\ resp.code = 200
              /\ Len(resp.body.data) = Cardinality(M)
              /\ \A k \in 1..Len(resp.body.data) :
                   \E ij \in M : resp.body.data[k] = RowRecord(ij)
              /\ \A ij \in M :
                   Cardinality({ k \in 1..Len(resp.body.data) :
                                   resp.body.data[k] = RowRecord(ij) })
                     = Cardinality({ m \in M : RowRecord(m) = RowRecord(ij) })
              /\ \A k1, k2 \in 1..Len(resp.body.data) :
                   (k1 < k2) =>
                     \E m1, m2 \in M :
                       /\ resp.body.data[k1] = RowRecord(m1)
                       /\ resp.body.data[k2] = RowRecord(m2)
                       /\ \/ m1[1] < m2[1]
                          \/ m1[1] = m2[1] /\ m1[2] < m2[2]

\* C13 witness: a query that matches a substring of the normalized names was
\* answered with records of two play types, two of them equal, while a
\* cached row did not match.
C13_Witness ==
  \E t \in Threads :
    /\ Done(t, "get_player")
    /\ th[t].response.code = 200
    /\ \E k1, k2, k3 \in 1..Len(th[t].response.body.data) :
         /\ k1 # k2
         /\ th[t].response.body.data[k1] = th[t].response.body.data[k2]
         /\ th[t].response.body.data[k3].playType
              # th[t].response.body.data[k1].playType
    /\ \E i \in 1..Len(offensive_cache) :
         \E j \in 1..Len(offensive_cache[i].val.rows) :
           <<i, j>> \notin MatchingRows(th[t].player_name)
    /\ normalize_text(th[t].player_name) # th[t].player_name

(***************************************************************************)
(* Properties of manual_refresh (SpecManual).                              *)
(***************************************************************************)
Refreshing(t) == th[t].op = "refresh_cache" /\ th[t].pc \notin {"idle", "done"}

\* C8: whatever the state of the cache and of other refreshes, the response
\* of manual_refresh is its message, sent when the refresh it started has
\* fetched nothing yet and installed nothing; and that refresh installs its
\* snapshot in the end.
C8_ManualRefreshRespondsAtOnce ==
  /\ [](\A t \in ServerThreads :
          Done(t, "manual_refresh") =>
            /\ th[t].response =
                 [code |-> 200, body |-> [message |-> "Cache refresh started"]]
            /\ th[t].spawned \notin installed
            /\ \E u \in ServerThreads \ {t} :
                 /\ Refreshing(u)
                 /\ th[u].cycle = th[t].spawned
                 /\ th[u].pc = "r_off" /\ th[u].idx = 1
                 /\ th[u].temp_offensive = EmptyDict)
  /\ \A c \in 1..MaxCycles :
       (\E t \in ServerThreads : Done(t, "manual_refresh") /\ th[t].spawned = c)
         ~> (c \in installed)

\* A refresh started by manual_refresh has installed its snapshot while
\* another refresh is still running.
C8_Witness ==
  \E u \in ServerThreads, v \in Threads :
    /\ u # v
    /\ Done(u, "refresh_cache")
    /\ th[u].cycle \in installed
    /\ Refreshing(v)

(***************************************************************************)
(* Properties of ai_analysis (SpecAnalysis).                               *)
(***************************************************************************)
AnalysisDone == an.pc = "done"
NamesGiven == StrTruthy(an.req.playerName) /\ StrTruthy(an.req.teamName)

\* C4: with a service that signals a rate limit on every call, the request
\* fails with 429 after exactly 2 calls for the task it was at; with a service
\* that signals a rate limit once and then succeeds, the task it was at gets
\* exactly 2 calls, the output of the second is used and the request succeeds.
C4_TwoAttemptsOnRateLimit ==
  (AnalysisDone /\ NamesGiven) =>
    /\ an.service = "always_rate_limited" =>
         /\ an.response.code = 429
         /\ \E p \in 1..Len(Personas) : an.attempts[p] = 2
         /\ \A p \in 1..Len(Personas) : an.attempts[p] \in {0, 2}
    /\ (an.service = "rate_limited_once" /\ an.served = 0) =>
         /\ an.response.code = 200
         /\ an.attempts[1] = 2
         /\ an.response.body.analysis[2] = [persona |-> Personas[1], attempt |-> 2]

\* C10: a failed analysis request is answered 429 exactly when the failure
\* is a rate-limit signal of the generation service; any other failure is
\* answered 500 with the message of the error.
C10_RateLimitedIffSignal ==
  (AnalysisDone /\ an.exc # NoExc) =>
    /\ an.response.code = 429 <=> an.exc.kind = "RateLimit"
    /\ an.exc.kind # "RateLimit" =>
         an.response = [code |-> 500,
                        body |-> [error |-> << "Analysis", "failed:" >> \o an.exc.msg]]

\* C11: a request whose playerName or teamName is missing or empty is
\* answered 400, no prompt having been built and no call of the generation
\* service made for it.
C11_MissingNameIs400 ==
  (AnalysisDone /\ ~NamesGiven) =>
    /\ an.response = [code |-> 400,
                      body |-> [error |-> << "Missing", "player", "or", "team",
                                             "name" >>]]
    /\ an.context = <<>>
    /\ \A p \in 1..Len(Personas) : an.attempts[p] = 0
    /\ an.outputs = <<>>

\* C12: a request with both names, every call of the generation service
\* having succeeded, is answered 200 with the sections of the offensive
\* specialist, the defensive specialist, the neutral analyst and the final
\* betting recommendation, in that order, each under its label, separated
\* by "---"; in both files.
C12_AnalysisConcatenatesSections ==
  (AnalysisDone /\ NamesGiven /\ ~StatsRaise(an.req)
     /\ an.exc.kind \notin {"RateLimit", "Other"}) =>
    /\ an.response.code = 200
    /\ LET a == an.response.body.analysis
       IN /\ Len(a) = 11
          /\ a[1] = "OFFENSIVE SPECIALIST PERSPECTIVE"  /\ a[2].persona = "offensive"
          /\ a[3] = "---"
          /\ a[4] = "DEFENSIVE SPECIALIST PERSPECTIVE"  /\ a[5].persona = "defensive"
          /\ a[6] = "---"
          /\ a[7] = "NEUTRAL ANALYST PERSPECTIVE"       /\ a[8].persona = "neutral"
          /\ a[9] = "---"
          /\ a[10] = "FINAL BETTING RECOMMENDATION"     /\ a[11].persona = "betting"

\* C17: a request goes from idle to the building of the prompts, to the calls
\* for the offensive, defensive and neutral tasks, to the call for the betting
\* task and the formatting, never backwards, and may fail on the way; it
\* ends with one response, 200, 400, 429 or 500; after the response nothing
\* of the request is left and the next request is served.
AnalysisStage(a) ==
  CASE a.pc = "idle"     -> 0
    [] a.pc = "building" -> 1
    [] a.pc = "kickoff"  -> IF a.persona < Len(Personas) THEN 2 ELSE 3
    [] a.pc = "format"   -> 4
    [] a.pc = "except"   -> 5
    [] a.pc = "done"     -> 6
    [] OTHER             -> 7

C17_AnalysisRunsToOneResponse ==
  /\ [][ \/ AnalysisStage(an') = AnalysisStage(an)
         \/ /\ AnalysisStage(an) = 0 /\ AnalysisStage(an') \in {1, 6}
         \/ /\ AnalysisStage(an) \in {0, 1, 2, 3} /\ AnalysisStage(an') = 5
         \/ /\ AnalysisStage(an) \in {1, 2, 3}
            /\ AnalysisStage(an') = AnalysisStage(an) + 1
         \/ /\ AnalysisStage(an) \in {4, 5} /\ AnalysisStage(an') = 6
         \/ /\ AnalysisStage(an) = 6 /\ AnalysisStage(an') = 0 ]_vars
  /\ [](an.pc = "done" => an.response.code \in {200, 400, 429, 500})
  /\ [](an.pc = "idle" =>
          an = AnalysisStart(an.variant, an.service, an.calls, an.served))
  /\ (an.pc # "idle") ~> (an.pc = "done")
  /\ (an.pc = "done") ~> (an.pc = "idle")
  /\ [](an.pc = "idle" /\ an.served < MaxAnalyses =>
          ENABLED (\E req \in AnalysisRequests : AnalysisReceive(req)))

\* C17 witness: the second request is answered 200 after the first one
\* failed on its first call of the service.
C17_Witness ==
  /\ an.pc = "done"
  /\ an.response.code = 200
  /\ an.served = 1
  /\ an.calls = Len(Personas) + 1

====
